---- MODULE Spec2Model ----
(***************************************************************************)
(* A model of rescan: the BatchScanManager of src/main.py (the debounce    *)
(* map, its lazily started worker thread and shutdown), the watchdog       *)
(* handler that feeds it, and the start-up reconciliation of src/plex.py   *)
(* (Plex.full_scan with Plex.find_library_by_path).                        *)
(*                                                                         *)
(* Time is a discrete clock `now`, counted in ticks of 1/tps second.  A    *)
(* step of straight-line Python code takes no time: the clock advances     *)
(* only while every thread is blocked (the watcher waiting for an event,   *)
(* the worker in time.sleep or inside a scan request, the main thread      *)
(* waiting for Ctrl-C, inside a scan request or in Thread.join).  All      *)
(* interleavings of the threads' steps at one instant are explored.        *)
(***************************************************************************)
EXTENDS Integers, Sequences, FiniteSets, TLC

VARIABLES
    now,              \* time.time(), in ticks
    tps,              \* ticks per second: the resolution of the clock, set by Init
    library_sections, \* Plex.library_sections: the snapshot taken at start-up
    pending_scans,    \* BatchScanManager.pending_scans, in dict (insertion) order
    lock,             \* BatchScanManager.lock: "free" or its holder
    stop_event,       \* BatchScanManager.stop_event
    timer_thread,     \* BatchScanManager.timer_thread: 0 (None) or a thread id
    threads,          \* every Thread object created so far; its id is its index
    wpc,              \* watcher thread: position inside on_any_event/add_scan_request
    w_scan,           \* watcher thread: the PendingScan being recorded
    w_stopped,        \* history: whether stop_event was set when that call was made
    mpc,              \* main thread: position inside main()/shutdown()
    remaining_scans,  \* main thread: shutdown()'s local list
    joining,          \* main thread: the thread join(timeout=5) waits for, and until when
    flush_snapshot,   \* history: the dict's entries when shutdown() took the lock
    calls,            \* history: the add_scan_request calls that inserted, and
                      \* how far shutdown() was when they did
    emits,            \* history: the send_scan_request calls issued by the coalescer
    local_library_paths, \* Plex.local_library_paths = settings.library_paths
    fs,               \* the media files on disk (paths)
    plex_files,       \* what the Plex server lists: <<library key, part.file>>
    db,               \* table plex_library_files: rows <<library_key, file_path>>
    cache_idx,        \* main(): position of the loop over plex.library_ids
    path_idx,         \* full_scan: position of the loop over local_library_paths
    walk_left,        \* full_scan: files of the current os.walk not yet visited
    scan_requests,    \* history: the send_scan_request calls issued by full_scan
    scan_errors       \* history: the exceptions raised while full_scan ran

coalescerVars == <<now, pending_scans, lock, stop_event, timer_thread, threads,
                   wpc, w_scan, w_stopped, mpc, remaining_scans, joining, flush_snapshot,
                   calls, emits>>

\* what the coalescer never writes: the configuration and the start-up state
envVars == <<tps, library_sections, local_library_paths, fs, plex_files, db,
             cache_idx, path_idx, walk_left, scan_requests, scan_errors>>

vars == <<envVars, coalescerVars>>

(***************************************************************************)
(* Bounds of the model.                                                    *)
(***************************************************************************)
MaxTime == 7            \* the clock stops after this many seconds
MaxRecords == 2         \* add_scan_request calls explored
MaxFiles == 2           \* files on disk at start-up
MaxRoots == 2           \* entries of settings.library_paths

(***************************************************************************)
(* Program constants.                                                      *)
(***************************************************************************)
\* BatchScanManager(plex, delay_seconds): the debounce window, in seconds.
\* The handler passes 30; the model runs the same code with a window of 2.
delay_seconds == 2
\* time.sleep(1) at the end of a worker iteration
worker_poll_interval == 1
\* self.timer_thread.join(timeout=5)
join_timeout == 5

Delay == delay_seconds * tps
Poll == worker_poll_interval * tps
JoinTimeout == join_timeout * tps
MaxTicks == MaxTime * tps

(***************************************************************************)
(* Paths are strings, modelled as sequences of characters.                 *)
(***************************************************************************)
RECURSIVE LastIndexOf(_, _, _)
\* the largest i <= n with p[i] = c, or 0
LastIndexOf(p, c, n) ==
    IF n = 0 THEN 0
    ELSE IF p[n] = c THEN n ELSE LastIndexOf(p, c, n - 1)

\* str.startswith
startswith(s, prefix) ==
    /\ Len(prefix) <= Len(s)
    /\ SubSeq(s, 1, Len(prefix)) = prefix

\* pathlib: Path(p).name, the part after the last "/"
PathName(p) == SubSeq(p, LastIndexOf(p, "/", Len(p)) + 1, Len(p))

\* pathlib: str(Path(p).parent) for an absolute path of a file
PathParent(p) ==
    LET i == LastIndexOf(p, "/", Len(p))
    IN  IF i <= 1 THEN <<"/">> ELSE SubSeq(p, 1, i - 1)

\* pathlib: Path(p).suffix, from the last "." of the name, unless that dot
\* leads the name or ends it
PathSuffix(p) ==
    LET name == PathName(p)
        i == LastIndexOf(name, ".", Len(name))
    IN  IF i <= 1 \/ i = Len(name) THEN <<>> ELSE SubSeq(name, i, Len(name))

\* str.lower on the characters the model uses
LowerChar(c) == IF c = "M" THEN "m" ELSE IF c = "T" THEN "t" ELSE c
lower(s) == [i \in 1..Len(s) |-> LowerChar(s[i])]

\* Settings.media_extensions (one media suffix stands for the list)
media_extensions == {<<".", "m">>}

\* the directories and files of the model: /l, /l/a, /l/ab, /l/b, /l/c
DirL == <<"/", "l">>
LocA == DirL \o <<"/", "a">>
LocAB == DirL \o <<"/", "a", "b">>
LocB == DirL \o <<"/", "b">>
DirC == DirL \o <<"/", "c">>
File_a_x == LocA \o <<"/", "x", ".", "m">>
File_ab_x == LocAB \o <<"/", "x", ".", "m">>
File_b_x == LocB \o <<"/", "x", ".", "m">>
File_c_x == DirC \o <<"/", "x", ".", "m">>
File_a_txt == LocA \o <<"/", "x", ".", "t">>
File_a_hidden == LocA \o <<"/", ".", "h", ".", "m">>
File_a_upper == LocA \o <<"/", "y", ".", "M">>

\* LibraryInfo, reduced to the fields the code reads
LibraryInfo(key, locations) == [key |-> key, locations |-> locations]
NoLibrary == [key |-> 0, locations |-> <<>>]

DefaultSections == <<LibraryInfo(1, <<LocA>>), LibraryInfo(2, <<LocB>>)>>

\* the sections from section i on that have a location file_path starts with
MatchesFrom(sections, file_path, i) ==
    {n \in i..Len(sections) :
        \E j \in 1..Len(sections[n].locations) :
            startswith(file_path, sections[n].locations[j])}

\* FirstMatch with a bug: the last section that matches is returned
FirstMatch_Last(sections, file_path, i) ==
    LET matches == MatchesFrom(sections, file_path, i)
    IN  IF matches = {} THEN NoLibrary
        ELSE sections[CHOOSE n \in matches : \A m \in matches : m <= n]

\* the length of the longest location of the section that file_path starts with
LongestLocation(section, file_path) ==
    LET lengths == {Len(section.locations[j]) : j \in
                       {k \in 1..Len(section.locations) :
                           startswith(file_path, section.locations[k])}}
    IN  IF lengths = {} THEN 0
        ELSE CHOOSE n \in lengths : \A m \in lengths : m <= n

\* FirstMatch with a change: the section with the longest matching location
\* is returned (the first of them, if several are as long)
FirstMatch_Longest(sections, file_path, i) ==
    LET matches == MatchesFrom(sections, file_path, i)
        best == {n \in matches : \A m \in matches :
                    LongestLocation(sections[m], file_path)
                        <= LongestLocation(sections[n], file_path)}
    IN  IF matches = {} THEN NoLibrary
        ELSE sections[CHOOSE n \in best : \A m \in best : n <= m]

RECURSIVE FirstMatch(_, _, _)
\* the nested for loops of find_library_by_path, from section i on
FirstMatch(sections, file_path, i) ==
    IF i > Len(sections) THEN NoLibrary
    ELSE IF \E j \in 1..Len(sections[i].locations) :
                startswith(file_path, sections[i].locations[j])
         THEN sections[i]
         ELSE FirstMatch(sections, file_path, i + 1)

\* Plex.find_library_by_path
find_library_by_path(file_path) == FirstMatch(library_sections, file_path, 1)

(***************************************************************************)
(* The pending-scan dict.                                                  *)
(***************************************************************************)
PendingScan(library_key, parent_dir, timestamp) ==
    [library_key |-> library_key, parent_dir |-> parent_dir, timestamp |-> timestamp]
NoScan == PendingScan(0, <<>>, 0)

\* scan_key = f"{library_key}:{parent_dir}"
ScanKey(library_key, parent_dir) == <<library_key, ":", parent_dir>>
KeyOf(scan) == ScanKey(scan.library_key, scan.parent_dir)

HasKey(d, k) == \E i \in 1..Len(d) : KeyOf(d[i]) = k

\* DictSet with a bug: a key already pending keeps its first timestamp
DictSet_KeepFirst(d, scan) ==
    IF HasKey(d, KeyOf(scan)) THEN d ELSE Append(d, scan)

\* d[KeyOf(scan)] = scan: an existing key keeps its place, a new one goes last
DictSet(d, scan) ==
    IF HasKey(d, KeyOf(scan))
    THEN [i \in 1..Len(d) |-> IF KeyOf(d[i]) = KeyOf(scan) THEN scan ELSE d[i]]
    ELSE Append(d, scan)

\* IsReady with a bug: an entry exactly delay_seconds old is not yet ready
IsReady_Strict(current_time, scan) == current_time - scan.timestamp > Delay

\* the test of the worker's scan: current_time - timestamp >= delay_seconds
IsReady(current_time, scan) == current_time - scan.timestamp >= Delay

RECURSIVE ReadyScans(_, _)
\* ready_scans after the for loop over list(pending_scans.items())
ReadyScans(d, current_time) ==
    IF d = <<>> THEN <<>>
    ELSE IF IsReady(current_time, Head(d))
         THEN <<Head(d)>> \o ReadyScans(Tail(d), current_time)
         ELSE ReadyScans(Tail(d), current_time)

\* KeptScans with a bug: the scan does not delete what it moves to ready_scans
KeptScans_KeepAll(d, current_time) == d

RECURSIVE KeptScans(_, _)
\* pending_scans after the for loop: the entries it did not delete
KeptScans(d, current_time) ==
    IF d = <<>> THEN <<>>
    ELSE IF IsReady(current_time, Head(d))
         THEN KeptScans(Tail(d), current_time)
         ELSE <<Head(d)>> \o KeptScans(Tail(d), current_time)

(***************************************************************************)
(* Threads.                                                                *)
(***************************************************************************)
Free == <<"free">>
Watcher == <<"watcher">>
Main == <<"main">>
Worker(i) == <<"worker", i>>

\* a Thread object: its position in _batch_processor and that frame's locals,
\* with the history of the iteration under way: the ready list as the scan
\* built it (batch) and the scans of it whose request failed (failed)
Thread(pc, current_time, ready_scans, wake) ==
    [pc |-> pc, current_time |-> current_time, ready_scans |-> ready_scans,
     wake |-> wake, batch |-> <<>>, failed |-> <<>>]
NewThread == Thread("new", 0, <<>>, 0)
DeadThread == Thread("dead", 0, <<>>, 0)

ThreadIds == 1..Len(threads)

\* Thread.is_alive(): started and not yet finished
is_alive(i) == threads[i].pc \notin {"new", "dead"}

AliveThreads == {i \in ThreadIds : is_alive(i)}

SetThread(i, t) == [threads EXCEPT ![i] = t]

\* one send_scan_request call, as the history records it
Emit(scan, by) == [scan |-> scan, at |-> now, by |-> by]

(***************************************************************************)
(* What a call of Plex.send_scan_request can do: the request is sent, or   *)
(* the Plex client raises PlexApiException, or something else is raised    *)
(* (a connection error of the HTTP layer, for instance).                   *)
(***************************************************************************)
Outcomes == {"sent", "PlexApiException", "Exception"}

\* send_scan_request handles PlexApiException itself ("except
\* PlexApiException") and returns; any other exception reaches its caller
Raises(outcome) == outcome \notin {"sent", "PlexApiException"}

\* HandlesException with a bug: the handler is "except PlexApiException"
HandlesException_PlexOnly(outcome) == outcome = "PlexApiException"

\* the handler "except Exception" around the call, in the worker's loop and
\* in shutdown(): it handles every exception the call can raise
HandlesException(outcome) == outcome \in {"PlexApiException", "Exception"}

(***************************************************************************)
(* The watcher thread: RescanEventHandler.on_any_event and                 *)
(* BatchScanManager.add_scan_request.                                      *)
(***************************************************************************)
Event(src_path, is_directory, event_type) ==
    [src_path |-> src_path, is_directory |-> is_directory, event_type |-> event_type]

Events ==
    { Event(File_a_x, FALSE, "created"),
      Event(File_ab_x, FALSE, "modified"),
      Event(File_c_x, FALSE, "created"),
      Event(File_a_txt, FALSE, "created"),
      Event(File_a_x, FALSE, "deleted"),
      Event(File_a_x, TRUE, "created") }

_is_media_file(file_path) == lower(PathSuffix(file_path)) \in media_extensions

_should_process_event(event) ==
    /\ _is_media_file(event.src_path)
    /\ ~event.is_directory
    /\ event.event_type \in {"created", "modified", "moved"}

\* ObserverRunning with a bug: observer.start() comes before the seeding loop
ObserverRunning_FromStart == mpc \in {"cache", "full_scan", "walk", "running"}

\* events are dispatched from observer.start(), which main() calls after
\* full_scan() has returned, until main() has called observer.stop()
ObserverRunning == mpc = "running"

\* on_any_event up to add_scan_request's time.time(): an event that is not
\* processed, or whose path has no library, returns at once.  A call under
\* way when the observer is stopped still runs to its end.
on_any_event(event) ==
    /\ wpc = "idle"
    /\ ObserverRunning
    /\ LET library == find_library_by_path(event.src_path)
       IN  IF _should_process_event(event) /\ library # NoLibrary
           THEN /\ Len(calls) < MaxRecords
                /\ wpc' = "lock"
                /\ w_scan' = PendingScan(library.key, PathParent(event.src_path), now)
                /\ w_stopped' = stop_event
           ELSE UNCHANGED <<wpc, w_scan, w_stopped>>
    /\ UNCHANGED <<now, envVars, pending_scans, lock, stop_event,
                   timer_thread, threads, mpc, remaining_scans, joining,
                   flush_snapshot, calls, emits>>

\* with self.lock: (entered)
add_scan_request_acquire ==
    /\ wpc = "lock"
    /\ lock = Free
    /\ lock' = Watcher
    /\ wpc' = "insert"
    /\ UNCHANGED <<now, envVars, pending_scans, stop_event,
                   timer_thread, threads, w_scan, w_stopped, mpc, remaining_scans, joining,
                   flush_snapshot, calls, emits>>

\* shutdown() has copied and cleared the dict
Flushed == mpc \in {"emit", "request", "check_alive", "join", "done"}

\* self.pending_scans[scan_key] = PendingScan(...), and the lock released
add_scan_request_insert ==
    /\ wpc = "insert"
    /\ pending_scans' = DictSet(pending_scans, w_scan)
    /\ lock' = Free
    /\ calls' = Append(calls, [key |-> KeyOf(w_scan), at |-> w_scan.timestamp,
                               stopped |-> w_stopped, flushed |-> Flushed])
    /\ wpc' = "check_alive"
    /\ UNCHANGED <<now, envVars, stop_event, timer_thread, threads,
                   w_scan, w_stopped, mpc, remaining_scans, joining, flush_snapshot, emits>>

\* NeedsThread with a bug: a worker is started on every call
NeedsThread_Always == TRUE

\* whether add_scan_request creates a worker thread
NeedsThread == timer_thread = 0 \/ ~is_alive(timer_thread)

\* if self.timer_thread is None or not self.timer_thread.is_alive():
\*     self.timer_thread = threading.Thread(...)
add_scan_request_check ==
    /\ wpc = "check_alive"
    /\ IF NeedsThread
       THEN /\ threads' = Append(threads, NewThread)
            /\ timer_thread' = Len(threads) + 1
            /\ wpc' = "start"
       ELSE /\ wpc' = "idle"
            /\ UNCHANGED <<threads, timer_thread>>
    /\ UNCHANGED <<now, envVars, pending_scans, lock, stop_event,
                   w_scan, w_stopped, mpc, remaining_scans, joining, flush_snapshot, calls, emits>>

\* self.timer_thread.start()
add_scan_request_start ==
    /\ wpc = "start"
    /\ threads' = SetThread(timer_thread, Thread("test", 0, <<>>, 0))
    /\ wpc' = "idle"
    /\ UNCHANGED <<now, envVars, pending_scans, lock, stop_event,
                   timer_thread, w_scan, w_stopped, mpc, remaining_scans, joining,
                   flush_snapshot, calls, emits>>

(***************************************************************************)
(* The worker thread: BatchScanManager._batch_processor.                   *)
(***************************************************************************)
\* StopRequested with a bug: the worker does not look at the flag
StopRequested_Never == FALSE

\* self.stop_event.is_set()
StopRequested == stop_event

\* while not self.stop_event.is_set(): current_time = time.time(); ready_scans = []
batch_processor_test(i) ==
    /\ threads[i].pc = "test"
    /\ IF StopRequested
       THEN threads' = SetThread(i, Thread("exiting", 0, <<>>, 0))
       ELSE threads' = SetThread(i, Thread("lock1", now, <<>>, 0))
    /\ UNCHANGED <<now, envVars, pending_scans, lock, stop_event,
                   timer_thread, wpc, w_scan, w_stopped, mpc, remaining_scans, joining,
                   flush_snapshot, calls, emits>>

\* with self.lock: (entered), before the scan and before the empty check
batch_processor_acquire(i) ==
    /\ threads[i].pc \in {"lock1", "lock2"}
    /\ lock = Free
    /\ lock' = Worker(i)
    /\ threads' = [threads EXCEPT ![i].pc = IF @ = "lock1" THEN "scan" ELSE "check"]
    /\ UNCHANGED <<now, envVars, pending_scans, stop_event,
                   timer_thread, wpc, w_scan, w_stopped, mpc, remaining_scans, joining,
                   flush_snapshot, calls, emits>>

\* LockAfterScan with a bug: the for loop over ready_scans is inside the
\* with block
LockAfterScan_Held(i) == Worker(i)

\* the holder of the lock once the worker's scan is over: the with block
\* ends before the for loop over ready_scans
LockAfterScan(i) == Free

\* the for loop over the dict: ready entries move to ready_scans; lock released
batch_processor_scan(i) ==
    /\ threads[i].pc = "scan"
    /\ threads' = [threads EXCEPT
                     ![i].pc = "emit",
                     ![i].ready_scans = ReadyScans(pending_scans, threads[i].current_time),
                     ![i].batch = ReadyScans(pending_scans, threads[i].current_time)]
    /\ pending_scans' = KeptScans(pending_scans, threads[i].current_time)
    /\ lock' = LockAfterScan(i)
    /\ UNCHANGED <<now, envVars, stop_event, timer_thread, wpc, w_scan, w_stopped,
                   mpc, remaining_scans, joining, flush_snapshot, calls, emits>>

\* for scan in ready_scans: the next send_scan_request is issued, or the loop ends
batch_processor_emit(i) ==
    /\ threads[i].pc = "emit"
    /\ IF threads[i].ready_scans = <<>>
       THEN /\ threads' = [threads EXCEPT ![i].pc = "lock2"]
            /\ UNCHANGED emits
       ELSE /\ threads' = [threads EXCEPT ![i].pc = "request"]
            /\ emits' = Append(emits, Emit(Head(threads[i].ready_scans), Worker(i)))
    /\ UNCHANGED <<now, envVars, pending_scans, lock, stop_event,
                   timer_thread, wpc, w_scan, w_stopped, mpc, remaining_scans, joining,
                   flush_snapshot, calls>>

\* send_scan_request returns, or raises and "except Exception" logs the
\* error: the for loop goes on with the next scan.  An exception the handler
\* did not handle would end _batch_processor.
batch_processor_request_done(i, outcome) ==
    /\ threads[i].pc = "request"
    /\ IF Raises(outcome) /\ ~HandlesException(outcome)
       THEN threads' = SetThread(i, Thread("exiting", 0, <<>>, 0))
       ELSE threads' = [threads EXCEPT
                          ![i].pc = "emit",
                          ![i].ready_scans = Tail(@),
                          ![i].failed =
                              IF outcome = "sent" THEN @
                              ELSE Append(@, Head(threads[i].ready_scans))]
    /\ UNCHANGED <<now, envVars, pending_scans, lock, stop_event,
                   timer_thread, wpc, w_scan, w_stopped, mpc, remaining_scans, joining,
                   flush_snapshot, calls, emits>>

\* if not self.pending_scans: break -- else time.sleep(1); lock released
batch_processor_check(i) ==
    /\ threads[i].pc = "check"
    /\ IF pending_scans = <<>>
       THEN threads' = SetThread(i, Thread("exiting", 0, <<>>, 0))
       ELSE threads' = SetThread(i, Thread("sleep", 0, <<>>, now + Poll))
    /\ lock' = Free
    /\ UNCHANGED <<now, envVars, pending_scans, stop_event,
                   timer_thread, wpc, w_scan, w_stopped, mpc, remaining_scans, joining,
                   flush_snapshot, calls, emits>>

\* time.sleep(1) returns
batch_processor_wake(i) ==
    /\ threads[i].pc = "sleep"
    /\ now >= threads[i].wake
    /\ threads' = SetThread(i, Thread("test", 0, <<>>, 0))
    /\ UNCHANGED <<now, envVars, pending_scans, lock, stop_event,
                   timer_thread, wpc, w_scan, w_stopped, mpc, remaining_scans, joining,
                   flush_snapshot, calls, emits>>

\* _batch_processor has returned; the thread finishes and is_alive() turns False
batch_processor_exit(i) ==
    /\ threads[i].pc = "exiting"
    /\ threads' = SetThread(i, DeadThread)
    /\ UNCHANGED <<now, envVars, pending_scans, lock, stop_event,
                   timer_thread, wpc, w_scan, w_stopped, mpc, remaining_scans, joining,
                   flush_snapshot, calls, emits>>

(***************************************************************************)
(* The main thread: the KeyboardInterrupt branch of main() and             *)
(* BatchScanManager.shutdown.                                              *)
(***************************************************************************)
NoJoin == [thread |-> 0, deadline |-> 0]

\* except KeyboardInterrupt: observer.stop() -- no new event is dispatched
main_interrupt ==
    /\ mpc = "running"
    /\ mpc' = "set_stop"
    /\ UNCHANGED <<now, envVars, pending_scans, lock, stop_event,
                   timer_thread, threads, wpc, w_scan, w_stopped, remaining_scans, joining,
                   flush_snapshot, calls, emits>>

\* self.stop_event.set()
shutdown_set_stop ==
    /\ mpc = "set_stop"
    /\ stop_event' = TRUE
    /\ mpc' = "lock"
    /\ UNCHANGED <<now, envVars, pending_scans, lock, timer_thread,
                   threads, wpc, w_scan, w_stopped, remaining_scans, joining, flush_snapshot,
                   calls, emits>>

\* with self.lock: (entered)
shutdown_acquire ==
    /\ mpc = "lock"
    /\ lock = Free
    /\ lock' = Main
    /\ mpc' = "take"
    /\ UNCHANGED <<now, envVars, pending_scans, stop_event,
                   timer_thread, threads, wpc, w_scan, w_stopped, remaining_scans, joining,
                   flush_snapshot, calls, emits>>

\* RemainingScans with a bug: only the entries whose window is over are flushed
RemainingScans_ReadyOnly(d) == ReadyScans(d, now)

\* list(self.pending_scans.values())
RemainingScans(d) == d

\* remaining_scans = list(self.pending_scans.values()); self.pending_scans.clear()
shutdown_take ==
    /\ mpc = "take"
    /\ remaining_scans' = RemainingScans(pending_scans)
    /\ flush_snapshot' = pending_scans
    /\ pending_scans' = <<>>
    /\ lock' = Free
    /\ mpc' = "emit"
    /\ UNCHANGED <<now, envVars, stop_event, timer_thread, threads,
                   wpc, w_scan, w_stopped, joining, calls, emits>>

\* for scan in remaining_scans: the next send_scan_request is issued, or the loop ends
shutdown_emit ==
    /\ mpc = "emit"
    /\ IF remaining_scans = <<>>
       THEN /\ mpc' = "check_alive"
            /\ UNCHANGED emits
       ELSE /\ mpc' = "request"
            /\ emits' = Append(emits, Emit(Head(remaining_scans), Main))
    /\ UNCHANGED <<now, envVars, pending_scans, lock, stop_event,
                   timer_thread, threads, wpc, w_scan, w_stopped, remaining_scans, joining,
                   flush_snapshot, calls>>

\* send_scan_request returns, or raises and "except Exception" logs the
\* error: the for loop goes on with the next scan.  An exception the handler
\* did not handle would end shutdown().
shutdown_request_done(outcome) ==
    /\ mpc = "request"
    /\ IF Raises(outcome) /\ ~HandlesException(outcome)
       THEN /\ mpc' = "done"
            /\ UNCHANGED remaining_scans
       ELSE /\ mpc' = "emit"
            /\ remaining_scans' = Tail(remaining_scans)
    /\ UNCHANGED <<now, envVars, pending_scans, lock, stop_event,
                   timer_thread, threads, wpc, w_scan, w_stopped, joining, flush_snapshot,
                   calls, emits>>

\* if self.timer_thread and self.timer_thread.is_alive(): ...join(timeout=5)
shutdown_check_alive ==
    /\ mpc = "check_alive"
    /\ IF timer_thread # 0 /\ is_alive(timer_thread)
       THEN /\ mpc' = "join"
            /\ joining' = [thread |-> timer_thread, deadline |-> now + JoinTimeout]
       ELSE /\ mpc' = "done"
            /\ UNCHANGED joining
    /\ UNCHANGED <<now, envVars, pending_scans, lock, stop_event,
                   timer_thread, threads, wpc, w_scan, w_stopped, remaining_scans,
                   flush_snapshot, calls, emits>>

\* whether join(timeout=5) returns: the thread has finished or the timeout is over
JoinReturns == ~is_alive(joining.thread) \/ now >= joining.deadline

shutdown_join_done ==
    /\ mpc = "join"
    /\ JoinReturns
    /\ mpc' = "done"
    /\ joining' = NoJoin
    /\ UNCHANGED <<now, envVars, pending_scans, lock, stop_event,
                   timer_thread, threads, wpc, w_scan, w_stopped, remaining_scans,
                   flush_snapshot, calls, emits>>

(***************************************************************************)
(* Time.                                                                   *)
(***************************************************************************)
\* a thread that can take a step without waiting for anything
WorkerRunnable(i) ==
    \/ threads[i].pc \in {"test", "lock1", "scan", "emit", "lock2", "check", "exiting"}
    \/ threads[i].pc = "sleep" /\ now >= threads[i].wake

MainRunnable ==
    \/ mpc \in {"cache", "full_scan", "walk"}
    \/ mpc \in {"set_stop", "lock", "take", "emit", "check_alive"}
    \/ mpc = "join" /\ JoinReturns

Tick ==
    /\ now < MaxTicks
    /\ wpc = "idle"
    /\ ~MainRunnable
    /\ \A i \in ThreadIds : ~WorkerRunnable(i)
    /\ now' = now + 1
    /\ UNCHANGED <<envVars, pending_scans, lock, stop_event,
                   timer_thread, threads, wpc, w_scan, w_stopped, mpc, remaining_scans, joining,
                   flush_snapshot, calls, emits>>

(***************************************************************************)
(* The coalescer, from the moment the observer is started.                 *)
(***************************************************************************)
Init ==
    /\ now = 0
    /\ tps = 1          \* the clock counts whole seconds
    /\ library_sections = DefaultSections
    /\ pending_scans = <<>>
    /\ lock = Free
    /\ stop_event = FALSE
    /\ timer_thread = 0
    /\ threads = <<>>
    /\ wpc = "idle"
    /\ w_scan = NoScan
    /\ w_stopped = FALSE
    /\ mpc = "running"
    /\ remaining_scans = <<>>
    /\ joining = NoJoin
    /\ flush_snapshot = <<>>
    /\ calls = <<>>
    /\ emits = <<>>
    /\ local_library_paths = <<DirL>>
    /\ fs = {}
    /\ plex_files = {}
    /\ db = {}
    /\ cache_idx = Len(library_sections) + 1
    /\ path_idx = Len(local_library_paths) + 1
    /\ walk_left = {}
    /\ scan_requests = <<>>
    /\ scan_errors = <<>>

WatcherStep ==
    \/ \E event \in Events : on_any_event(event)
    \/ add_scan_request_acquire
    \/ add_scan_request_insert
    \/ add_scan_request_check
    \/ add_scan_request_start

WorkerStep ==
    \/ \E i \in ThreadIds : batch_processor_test(i)
    \/ \E i \in ThreadIds : batch_processor_acquire(i)
    \/ \E i \in ThreadIds : batch_processor_scan(i)
    \/ \E i \in ThreadIds : batch_processor_emit(i)
    \/ \E i \in ThreadIds : \E outcome \in Outcomes :
           batch_processor_request_done(i, outcome)
    \/ \E i \in ThreadIds : batch_processor_check(i)
    \/ \E i \in ThreadIds : batch_processor_wake(i)
    \/ \E i \in ThreadIds : batch_processor_exit(i)

MainStep ==
    \/ main_interrupt
    \/ shutdown_set_stop
    \/ shutdown_acquire
    \/ shutdown_take
    \/ shutdown_emit
    \/ \E outcome \in Outcomes : shutdown_request_done(outcome)
    \/ shutdown_check_alive
    \/ shutdown_join_done

Next == WatcherStep \/ WorkerStep \/ MainStep \/ Tick

Spec == Init /\ [][Next]_vars

\* The same program when every scan request returns at once: the clock does
\* not advance while a send_scan_request call is in progress.
NoRequestInProgress ==
    /\ mpc # "request"
    /\ \A i \in ThreadIds : threads[i].pc # "request"

TickInstant == NoRequestInProgress /\ Tick

NextInstant == WatcherStep \/ WorkerStep \/ MainStep \/ TickInstant

SpecInstant == Init /\ [][NextInstant]_vars

(***************************************************************************)
(* The BatchScanManager on its own: add_scan_request is called by a thread *)
(* that is not bound to the observer, at any time, also while shutdown()   *)
(* runs and after it has returned.                                         *)
(***************************************************************************)
\* the (library_key, parent_dir) the manager is called with
ManagerKeys == {<<1, LocA>>}

\* add_scan_request(library_key, parent_dir) is entered:
\* scan_key = ...; current_time = time.time()
add_scan_request_call(library_key, parent_dir) ==
    /\ wpc = "idle"
    /\ Len(calls) < MaxRecords
    /\ wpc' = "lock"
    /\ w_scan' = PendingScan(library_key, parent_dir, now)
    /\ w_stopped' = stop_event
    /\ UNCHANGED <<now, envVars, pending_scans, lock, stop_event,
                   timer_thread, threads, mpc, remaining_scans, joining,
                   flush_snapshot, calls, emits>>

NextManager ==
    \/ \E k \in ManagerKeys : add_scan_request_call(k[1], k[2])
    \/ add_scan_request_acquire
    \/ add_scan_request_insert
    \/ add_scan_request_check
    \/ add_scan_request_start
    \/ WorkerStep
    \/ MainStep
    \/ Tick

SpecManager == Init /\ [][NextManager]_vars

(***************************************************************************)
(* Start-up: the seeding loop of main() (Plex.cache_library_files over     *)
(* DatabaseManager.insert_plex_library_files) and Plex.full_scan.          *)
(***************************************************************************)
\* INSERT OR IGNORE under "file_path TEXT NOT NULL UNIQUE": a row whose
\* file_path the table already holds is dropped
insert_plex_library_files(table, data) ==
    table \cup {row \in data : \A old \in table : old[2] # row[2]}

\* the (library_key, part.file) pairs cache_library_files collects for one section
LibraryFiles(library_key) == {row \in plex_files : row[1] = library_key}

\* for library, key in plex.library_ids.items(): plex.cache_library_files(key)
cache_library_files ==
    /\ mpc = "cache"
    /\ IF cache_idx > Len(library_sections)
       THEN /\ mpc' = "full_scan"
            /\ UNCHANGED <<db, cache_idx>>
       ELSE /\ db' = insert_plex_library_files(
                         db, LibraryFiles(library_sections[cache_idx].key))
            /\ cache_idx' = cache_idx + 1
            /\ UNCHANGED mpc
    /\ UNCHANGED <<now, tps, library_sections, local_library_paths, fs, plex_files,
                   path_idx, walk_left, scan_requests, scan_errors, pending_scans,
                   lock, stop_event, timer_thread, threads, wpc, w_scan, w_stopped,
                   remaining_scans, joining, flush_snapshot, calls, emits>>

\* os.walk and Path.exists see directories, not string prefixes
IsInside(file_path, dir) == startswith(file_path, dir \o <<"/">>)
PathExists(dir) == \E f \in fs : IsInside(f, dir)
Walk(dir) == {f \in fs : IsInside(f, dir)}

\* the filter of full_scan: a media suffix and not a hidden file
IsCandidate(file_path) ==
    /\ lower(PathSuffix(file_path)) \in media_extensions
    /\ ~startswith(PathName(file_path), <<".">>)

\* SELECT 1 FROM plex_library_files WHERE library_key = ? AND file_path = ?
is_cached(library_key, file_path) == <<library_key, file_path>> \in db

\* the send_scan_request calls full_scan makes for one file of the walk
RequestsFor(file_path) ==
    LET library == find_library_by_path(file_path)
    IN  IF IsCandidate(file_path) /\ library # NoLibrary
           /\ ~is_cached(library.key, file_path)
        THEN <<[library_key |-> library.key, file_path |-> file_path]>>
        ELSE <<>>

\* AfterMissingPath with a bug: "break" in the place of "continue"
AfterMissingPath_Break(idx) == Len(local_library_paths) + 1

\* "continue" after the warning: the loop goes on with the next library path
AfterMissingPath(idx) == idx + 1

\* for library_path in self.local_library_paths: a missing path is skipped
full_scan_next_path ==
    /\ mpc = "full_scan"
    /\ IF path_idx > Len(local_library_paths)
       THEN /\ mpc' = "running"
            /\ UNCHANGED <<path_idx, walk_left>>
       ELSE IF ~PathExists(local_library_paths[path_idx])
       THEN /\ path_idx' = AfterMissingPath(path_idx)
            /\ UNCHANGED <<mpc, walk_left>>
       ELSE /\ walk_left' = Walk(local_library_paths[path_idx])
            /\ mpc' = "walk"
            /\ UNCHANGED path_idx
    /\ UNCHANGED <<now, tps, library_sections, local_library_paths, fs, plex_files,
                   db, cache_idx, scan_requests, scan_errors, pending_scans, lock,
                   stop_event, timer_thread, threads, wpc, w_scan, w_stopped, remaining_scans,
                   joining, flush_snapshot, calls, emits>>

\* what the SELECT of full_scan can do: it answers, or sqlite3 raises
Lookups == {"answered", "sqlite3.Error"}

\* the file gets as far as the SELECT
IsLookedUp(file_path) ==
    IsCandidate(file_path) /\ find_library_by_path(file_path) # NoLibrary

\* the SELECT for the file raises
LookupFails(file_path, lookup) ==
    IsLookedUp(file_path) /\ lookup # "answered"

\* the send_scan_request calls full_scan makes for the file
RequestsIssued(file_path, lookup) ==
    IF LookupFails(file_path, lookup) THEN <<>> ELSE RequestsFor(file_path)

\* what went wrong while the file was visited, if anything: the SELECT, or
\* the scan request
FileError(file_path, lookup, outcome) ==
    IF LookupFails(file_path, lookup) THEN <<lookup>>
    ELSE IF RequestsIssued(file_path, lookup) # <<>> /\ outcome # "sent"
         THEN <<outcome>>
         ELSE <<>>

\* the exception leaves the loop body: nothing inside the loops handles it,
\* and the handlers of full_scan ("except PlexApiException", "except
\* Exception"), which are around the whole loop over the library paths, log
\* it; full_scan then returns
EndsFullScan(file_path, lookup, outcome) ==
    \/ LookupFails(file_path, lookup)
    \/ RequestsIssued(file_path, lookup) # <<>> /\ Raises(outcome)

\* for file in files: one file of the walk is visited
full_scan_file(file_path, lookup, outcome) ==
    /\ mpc = "walk"
    /\ file_path \in walk_left
    /\ scan_requests' = scan_requests \o RequestsIssued(file_path, lookup)
    /\ LET error == FileError(file_path, lookup, outcome)
       IN  scan_errors' =
               IF error = <<>> THEN scan_errors
               ELSE Append(scan_errors, [file_path |-> file_path, error |-> error[1]])
    /\ IF EndsFullScan(file_path, lookup, outcome)
       THEN /\ mpc' = "running"
            /\ UNCHANGED walk_left
       ELSE /\ walk_left' = walk_left \ {file_path}
            /\ UNCHANGED mpc
    /\ UNCHANGED <<now, tps, library_sections, local_library_paths, fs, plex_files,
                   db, cache_idx, path_idx, pending_scans, lock, stop_event,
                   timer_thread, threads, wpc, w_scan, w_stopped, remaining_scans, joining,
                   flush_snapshot, calls, emits>>

\* os.walk is exhausted: on to the next library path
full_scan_walk_done ==
    /\ mpc = "walk"
    /\ walk_left = {}
    /\ path_idx' = path_idx + 1
    /\ mpc' = "full_scan"
    /\ UNCHANGED <<now, tps, library_sections, local_library_paths, fs, plex_files,
                   db, cache_idx, walk_left, scan_requests, scan_errors,
                   pending_scans, lock, stop_event, timer_thread, threads, wpc,
                   w_scan, w_stopped, remaining_scans, joining, flush_snapshot, calls, emits>>

\* the configurations start-up is explored with
OverlapSections == <<LibraryInfo(1, <<DirL>>), LibraryInfo(2, <<LocA>>)>>
SectionConfigs == {DefaultSections, OverlapSections}
CandidateFiles == {File_a_x, File_ab_x, File_b_x, File_c_x, File_a_txt,
                   File_a_hidden, File_a_upper}
CandidateRoots == {DirL, LocA, LocAB}
PlexCandidates == {<<1, File_a_x>>, <<2, File_a_x>>, <<2, File_b_x>>}

InitScan ==
    /\ now = 0
    /\ tps = 1          \* the clock counts whole seconds
    /\ library_sections \in SectionConfigs
    /\ pending_scans = <<>>
    /\ lock = Free
    /\ stop_event = FALSE
    /\ timer_thread = 0
    /\ threads = <<>>
    /\ wpc = "idle"
    /\ w_scan = NoScan
    /\ w_stopped = FALSE
    /\ mpc = "cache"
    /\ remaining_scans = <<>>
    /\ joining = NoJoin
    /\ flush_snapshot = <<>>
    /\ calls = <<>>
    /\ emits = <<>>
    /\ local_library_paths \in
           UNION {[1..n -> CandidateRoots] : n \in 1..MaxRoots}
    /\ fs \in {files \in SUBSET CandidateFiles : Cardinality(files) <= MaxFiles}
    /\ plex_files \in SUBSET PlexCandidates
    /\ db = {}
    /\ cache_idx = 1
    /\ path_idx = 1
    /\ walk_left = {}
    /\ scan_requests = <<>>
    /\ scan_errors = <<>>

NextScan ==
    \/ cache_library_files
    \/ full_scan_next_path
    \/ \E file_path \in CandidateFiles : \E lookup \in Lookups :
           \E outcome \in Outcomes : full_scan_file(file_path, lookup, outcome)
    \/ full_scan_walk_done

SpecScan == InitScan /\ [][NextScan]_vars

(***************************************************************************)
(* Start-up with one file on disk and nothing known to Plex, for every     *)
(* shape of the library snapshot and every list of library paths.          *)
(***************************************************************************)
\* the longer location comes first
NestedSections == <<LibraryInfo(1, <<LocA>>), LibraryInfo(2, <<DirL>>)>>
\* libraries with two locations each
TwoLocationSections ==
    <<LibraryInfo(1, <<LocB, LocA>>), LibraryInfo(2, <<LocA, DirL>>)>>
NoSections == <<>>

WalkConfigs == SectionConfigs \cup {NestedSections, TwoLocationSections, NoSections}

InitWalk ==
    /\ now = 0
    /\ tps = 1          \* the clock counts whole seconds
    /\ library_sections \in WalkConfigs
    /\ pending_scans = <<>>
    /\ lock = Free
    /\ stop_event = FALSE
    /\ timer_thread = 0
    /\ threads = <<>>
    /\ wpc = "idle"
    /\ w_scan = NoScan
    /\ w_stopped = FALSE
    /\ mpc = "cache"
    /\ remaining_scans = <<>>
    /\ joining = NoJoin
    /\ flush_snapshot = <<>>
    /\ calls = <<>>
    /\ emits = <<>>
    /\ local_library_paths \in
           UNION {[1..n -> CandidateRoots] : n \in 1..MaxRoots}
    /\ fs \in {{file_path} : file_path \in CandidateFiles}
    /\ plex_files = {}
    /\ db = {}
    /\ cache_idx = 1
    /\ path_idx = 1
    /\ walk_left = {}
    /\ scan_requests = <<>>
    /\ scan_errors = <<>>

SpecWalk == InitWalk /\ [][NextScan]_vars

(***************************************************************************)
(* The whole of main(): the seeding loop, full_scan, then the observer and *)
(* the coalescer for as long as the program is not interrupted, with one   *)
(* file known to Plex and another one on disk.                             *)
(***************************************************************************)
InitMain ==
    /\ now = 0
    /\ tps = 1          \* the clock counts whole seconds
    /\ library_sections = DefaultSections
    /\ pending_scans = <<>>
    /\ lock = Free
    /\ stop_event = FALSE
    /\ timer_thread = 0
    /\ threads = <<>>
    /\ wpc = "idle"
    /\ w_scan = NoScan
    /\ w_stopped = FALSE
    /\ mpc = "cache"
    /\ remaining_scans = <<>>
    /\ joining = NoJoin
    /\ flush_snapshot = <<>>
    /\ calls = <<>>
    /\ emits = <<>>
    /\ local_library_paths = <<DirL>>
    /\ fs = {File_b_x}
    /\ plex_files = {<<1, File_a_x>>}
    /\ db = {}
    /\ cache_idx = 1
    /\ path_idx = 1
    /\ walk_left = {}
    /\ scan_requests = <<>>
    /\ scan_errors = <<>>

NextMain == NextScan \/ WatcherStep \/ WorkerStep \/ Tick

SpecMain == InitMain /\ [][NextMain]_vars

(***************************************************************************)
(* A timed scenario: the handler is called for /l/a/x.m at t = 0, 0.5 and  *)
(* 1.0 s and never again, and the program is not interrupted.  The clock   *)
(* counts half seconds.                                                    *)
(***************************************************************************)
\* the times of the calls, in ticks of half a second
ScenarioCalls == <<0, 1, 2>>

ScenarioEvent == Event(File_a_x, FALSE, "created")

\* the next call of the scenario is due
ScenarioCallDue ==
    /\ Len(calls) < Len(ScenarioCalls)
    /\ now >= ScenarioCalls[Len(calls) + 1]

\* on_any_event(ScenarioEvent) up to add_scan_request's time.time()
scenario_on_any_event ==
    /\ wpc = "idle"
    /\ ScenarioCallDue
    /\ _should_process_event(ScenarioEvent)
    /\ LET library == find_library_by_path(ScenarioEvent.src_path)
       IN  /\ library # NoLibrary
           /\ wpc' = "lock"
           /\ w_scan' = PendingScan(library.key, PathParent(ScenarioEvent.src_path), now)
           /\ w_stopped' = stop_event
    /\ UNCHANGED <<now, envVars, pending_scans, lock, stop_event,
                   timer_thread, threads, mpc, remaining_scans, joining,
                   flush_snapshot, calls, emits>>

\* the clock does not pass a call of the scenario
TickScenario == ~ScenarioCallDue /\ Tick

InitScenario ==
    /\ now = 0
    /\ tps = 2          \* the clock counts half seconds
    /\ library_sections = DefaultSections
    /\ pending_scans = <<>>
    /\ lock = Free
    /\ stop_event = FALSE
    /\ timer_thread = 0
    /\ threads = <<>>
    /\ wpc = "idle"
    /\ w_scan = NoScan
    /\ w_stopped = FALSE
    /\ mpc = "running"
    /\ remaining_scans = <<>>
    /\ joining = NoJoin
    /\ flush_snapshot = <<>>
    /\ calls = <<>>
    /\ emits = <<>>
    /\ local_library_paths = <<DirL>>
    /\ fs = {}
    /\ plex_files = {}
    /\ db = {}
    /\ cache_idx = Len(library_sections) + 1
    /\ path_idx = Len(local_library_paths) + 1
    /\ walk_left = {}
    /\ scan_requests = <<>>
    /\ scan_errors = <<>>

NextScenario ==
    \/ scenario_on_any_event
    \/ add_scan_request_acquire
    \/ add_scan_request_insert
    \/ add_scan_request_check
    \/ add_scan_request_start
    \/ WorkerStep
    \/ TickScenario

SpecScenario == InitScenario /\ [][NextScenario]_vars

(***************************************************************************)
(* Reading the histories.                                                  *)
(***************************************************************************)
CalledKeys == {calls[j].key : j \in 1..Len(calls)}

RECURSIVE LastCallFrom(_, _)
\* the time of the last call for key k among calls[1..j] (-1: none)
LastCallFrom(k, j) ==
    IF j = 0 THEN -1
    ELSE IF calls[j].key = k THEN calls[j].at ELSE LastCallFrom(k, j - 1)

LastCall(k) == LastCallFrom(k, Len(calls))

RECURSIVE BurstStartFrom(_, _, _)
\* the first call of the run of calls for k, each less than Delay after the
\* one before, that ends with the call at time t; calls[1..j] are still to read
BurstStartFrom(k, j, t) ==
    IF j = 0 THEN t
    ELSE IF calls[j].key # k THEN BurstStartFrom(k, j - 1, t)
    ELSE IF t - calls[j].at < Delay THEN BurstStartFrom(k, j - 1, calls[j].at)
    ELSE t

\* when the burst that holds the last call for k began
BurstStart(k) == BurstStartFrom(k, Len(calls), LastCall(k))

\* the emissions for key k
EmitsOf(k) == {j \in 1..Len(emits) : KeyOf(emits[j].scan) = k}

\* the scans emitted by `by`, in order
RECURSIVE ScansBy(_, _)
ScansBy(by, j) ==
    IF j = 0 THEN <<>>
    ELSE IF emits[j].by = by THEN Append(ScansBy(by, j - 1), emits[j].scan)
    ELSE ScansBy(by, j - 1)

(***************************************************************************)
(* C1: while the calls for a key keep coming less than delay_seconds       *)
(* apart and shutdown has not been requested, the key stays in the dict    *)
(* with the timestamp of its last call, no entry recorded in that burst    *)
(* has been emitted, and at most one scan request for the key has been     *)
(* issued since the burst began.                                           *)
(***************************************************************************)
C1_BurstHeld ==
    ~stop_event =>
        \A k \in CalledKeys :
            now - LastCall(k) < Delay =>
                /\ \E i \in 1..Len(pending_scans) :
                       /\ KeyOf(pending_scans[i]) = k
                       /\ pending_scans[i].timestamp = LastCall(k)
                /\ \A j \in EmitsOf(k) : emits[j].scan.timestamp < BurstStart(k)
                /\ Cardinality({j \in EmitsOf(k) : emits[j].at >= BurstStart(k)}) <= 1

\* a worker has scanned the dict at a time when the first call of the burst
\* was already delay_seconds old, and the refreshed key is still held
C1_Witness ==
    \E k \in CalledKeys : \E i \in ThreadIds :
        /\ ~stop_event
        /\ threads[i].pc = "emit"
        /\ threads[i].current_time - BurstStart(k) >= Delay
        /\ now - LastCall(k) < Delay
        /\ HasKey(pending_scans, k)
        /\ EmitsOf(k) = {}

(***************************************************************************)
(* C3: shutdown() sets the stop flag before it takes the lock; taking the  *)
(* lock empties the dict; and by the time it reaches the join it has       *)
(* issued exactly one scan request for every entry the dict held at that   *)
(* moment, whatever the entry's age.                                       *)
(***************************************************************************)
C3_FlushEmitsSnapshot ==
    /\ [](mpc \in {"lock", "take", "emit", "request", "check_alive", "join", "done"}
            => stop_event)
    /\ [][(mpc = "take" /\ mpc' = "emit")
            => (pending_scans' = <<>> /\ remaining_scans' = pending_scans)]_vars
    /\ [](mpc \in {"check_alive", "join", "done"}
            => ScansBy(Main, Len(emits)) = flush_snapshot)

\* shutdown() has returned after flushing an entry younger than the window
C3_Witness ==
    /\ mpc = "done"
    /\ \E j \in 1..Len(emits) :
           /\ emits[j].by = Main
           /\ emits[j].at - emits[j].scan.timestamp < Delay

(***************************************************************************)
(* C7: at most one worker thread is alive at any time, and a new Thread    *)
(* is created only when no worker is alive.                                *)
(***************************************************************************)
C7_OneWorker ==
    /\ Cardinality(AliveThreads) <= 1
    /\ (wpc = "start" => AliveThreads = {})

\* a second worker is running after the first one has finished
C7_Witness ==
    /\ Len(threads) >= 2
    /\ is_alive(Len(threads))
    /\ threads[1].pc = "dead"

\* the emissions of the entry the last call for k recorded
EmitsOfLast(k) == {j \in EmitsOf(k) : emits[j].scan.timestamp = LastCall(k)}

(***************************************************************************)
(* C2: once the last call for a key is more than delay_seconds plus the    *)
(* poll interval old (shutdown not requested), exactly one scan request    *)
(* has been issued for the entry that call recorded, and it was issued     *)
(* within that time.  The code does not keep this, even when every scan    *)
(* request returns at once (SpecInstant).                                  *)
(***************************************************************************)
C2_EmittedInTime ==
    ~stop_event =>
        \A k \in CalledKeys :
            /\ Cardinality(EmitsOfLast(k)) <= 1
            /\ now > LastCall(k) + Delay + Poll =>
                   \E j \in EmitsOfLast(k) : emits[j].at <= LastCall(k) + Delay + Poll

(***************************************************************************)
(* C4: once shutdown() has returned, no worker issues a scan request.      *)
(* The code does not keep this.                                            *)
(***************************************************************************)
C4_NoEmitAfterShutdown == [][mpc = "done" => emits' = emits]_vars

\* shutdown() has returned and no thread of the coalescer can take a step
AtRest ==
    /\ mpc = "done"
    /\ wpc = "idle"
    /\ AliveThreads = {}

(***************************************************************************)
(* C5: when shutdown() has returned and every thread has come to rest, no  *)
(* entry is left in the dict and the entry of every key's last call has    *)
(* been emitted.  The code does not keep this.                             *)
(***************************************************************************)
C5_NothingLost ==
    AtRest =>
        /\ pending_scans = <<>>
        /\ \A k \in CalledKeys : EmitsOfLast(k) # {}

\* a worker that has not yet left its loop
WillDrain(i) ==
    threads[i].pc \in {"test", "lock1", "scan", "emit", "request", "lock2",
                       "check", "sleep"}

(***************************************************************************)
(* C6: whenever add_scan_request has returned, shutdown has not been       *)
(* requested and the dict holds an entry, a worker is alive that will      *)
(* still read the dict.  The code does not keep this.                      *)
(***************************************************************************)
C6_WorkerWillDrain ==
    (wpc = "idle" /\ ~stop_event /\ pending_scans # <<>>) =>
        \E i \in ThreadIds : WillDrain(i)

\* the requests in progress: who issued each, and for which key
WorkerRequests ==
    {<<Worker(i), KeyOf(Head(threads[i].ready_scans))>> :
        i \in {t \in ThreadIds : threads[t].pc = "request"}}

MainRequests ==
    IF mpc = "request" THEN {<<Main, KeyOf(Head(remaining_scans))>>} ELSE {}

NoOverlap(requests) ==
    \A r1, r2 \in requests : r1[2] = r2[2] => r1 = r2

(***************************************************************************)
(* C8, as stated: no two scan requests for the same key are in progress    *)
(* at once, whether the worker or shutdown() issued them.  The code does   *)
(* not keep this: shutdown() flushes before it joins the worker.           *)
(***************************************************************************)
C8_NoOverlapAtAll == NoOverlap(WorkerRequests \cup MainRequests)

(***************************************************************************)
(* C8, as amended: no two scan requests for the same key issued by worker  *)
(* threads are in progress at once, also when the key is recorded again    *)
(* while the worker's request for it is in progress.                       *)
(***************************************************************************)
C8_NoWorkerOverlap == NoOverlap(WorkerRequests)

\* a key was recorded again while the worker's request for it was in progress
C8_Witness ==
    \E i \in ThreadIds :
        /\ threads[i].pc = "request"
        /\ HasKey(pending_scans, KeyOf(Head(threads[i].ready_scans)))

(***************************************************************************)
(* Reading the start-up history.                                           *)
(***************************************************************************)
\* every root location of every library of the snapshot
AllLocations ==
    UNION {{library_sections[i].locations[j] :
               j \in 1..Len(library_sections[i].locations)} :
           i \in 1..Len(library_sections)}

\* the files some existing configured library path contains
ScannedFiles ==
    UNION {Walk(local_library_paths[i]) : i \in 1..Len(local_library_paths)}

\* the requests full_scan issued for one file
RequestsOf(file_path) ==
    {j \in 1..Len(scan_requests) : scan_requests[j].file_path = file_path}

\* a file full_scan must request: a media file, not hidden, with a library,
\* and not in the table under that library
IsUnknown(file_path) ==
    /\ IsCandidate(file_path)
    /\ find_library_by_path(file_path) # NoLibrary
    /\ ~is_cached(find_library_by_path(file_path).key, file_path)

(***************************************************************************)
(* C9: when full_scan has finished and nothing failed on the way, it has   *)
(* issued no request for a (library, path) the table holds, and exactly    *)
(* one request for every unknown qualifying file under the configured      *)
(* library paths, also when those paths overlap or repeat.  The code does  *)
(* not keep this.                                                          *)
(***************************************************************************)
C9_ExactlyOnePerUnknownFile ==
    (mpc = "running" /\ scan_errors = <<>>) =>
        /\ \A j \in 1..Len(scan_requests) :
               ~is_cached(scan_requests[j].library_key, scan_requests[j].file_path)
        /\ \A f \in ScannedFiles :
               Cardinality(RequestsOf(f)) = IF IsUnknown(f) THEN 1 ELSE 0

\* the path is a root location of some library or lies inside one
InSomeLocation(path) ==
    \E location \in AllLocations : path = location \/ IsInside(path, location)

(***************************************************************************)
(* C10: a file that is in no library's root location causes no scan        *)
(* request, in reconciliation and in the watcher's handler; a path that    *)
(* only begins with the characters of a root location (/l/ab/x.m for the   *)
(* location /l/a) is such a file.  The code does not keep this.            *)
(***************************************************************************)
C10_OutsideNoRequest ==
    /\ \A j \in 1..Len(scan_requests) : InSomeLocation(scan_requests[j].file_path)
    /\ \A j \in 1..Len(calls) : InSomeLocation(calls[j].key[3])

\* n seconds, in ticks
Seconds(n) == n * tps

(***************************************************************************)
(* C11: with delay_seconds = 2 and add_scan_request("1", "/l/a") called at *)
(* t = 0, 0.5 and 1.0 and never again, and no shutdown, every scan request *)
(* issued is for that key and is issued between t = 2.0 and t = 3.0, at    *)
(* most one is issued, and once t = 3.0 has passed exactly one has been.   *)
(***************************************************************************)
C11_ScenarioOneRequest ==
    /\ \A j \in 1..Len(emits) :
           /\ KeyOf(emits[j].scan) = ScanKey(1, LocA)
           /\ Seconds(2) <= emits[j].at
           /\ emits[j].at <= Seconds(3)
    /\ Len(emits) <= 1
    /\ now > Seconds(3) => Len(emits) = 1

\* the three calls were made at 0, 0.5 and 1.0 s, the request has been issued
\* and the worker has finished
C11_Witness ==
    /\ Len(calls) = Len(ScenarioCalls)
    /\ \A j \in 1..Len(calls) : calls[j].at = ScenarioCalls[j]
    /\ Len(emits) = 1
    /\ now > Seconds(3)
    /\ AliveThreads = {}

\* the scans worker i has issued a request for in the iteration under way
RECURSIVE ScansSince(_, _, _)
ScansSince(by, since, j) ==
    IF j = 0 THEN <<>>
    ELSE IF emits[j].by = by /\ emits[j].at >= since
         THEN Append(ScansSince(by, since, j - 1), emits[j].scan)
         ELSE ScansSince(by, since, j - 1)

\* the emissions of exactly this entry
EmitsOfScan(scan) == {j \in 1..Len(emits) : emits[j].scan = scan}

(***************************************************************************)
(* C12: a scan request that fails inside the worker's batch changes        *)
(* nothing but the worker's position: the step that ends a request,        *)
(* whatever its outcome, leaves the dict alone and moves the worker to the *)
(* next entry of its ready list; an entry whose request failed is not in   *)
(* the dict again and has been requested once; when the for loop is over,  *)
(* a request has been issued for every entry of the ready list, in order;  *)
(* and the worker then does its empty check and sleeps or ends as the dict *)
(* says.                                                                   *)
(***************************************************************************)
C12_FailureIsSkipped ==
    /\ [][\A i \in ThreadIds :
             (threads[i].pc = "request" /\ threads'[i].pc # "request") =>
                 /\ threads'[i].pc = "emit"
                 /\ threads'[i].ready_scans = Tail(threads[i].ready_scans)
                 /\ pending_scans' = pending_scans]_vars
    /\ [](\A i \in ThreadIds :
             \A n \in 1..Len(threads[i].failed) :
                 /\ \A m \in 1..Len(pending_scans) :
                        pending_scans[m] # threads[i].failed[n]
                 /\ Cardinality(EmitsOfScan(threads[i].failed[n])) = 1)
    /\ [](\A i \in ThreadIds :
             threads[i].pc \in {"lock2", "check"} =>
                 ScansSince(Worker(i), threads[i].current_time, Len(emits))
                     = threads[i].batch)
    /\ [][\A i \in ThreadIds :
             (threads[i].pc = "check" /\ threads'[i].pc # "check") =>
                 threads'[i].pc = IF pending_scans = <<>> THEN "exiting"
                                  ELSE "sleep"]_vars

\* the request for the first of two ready entries failed, the second was
\* requested all the same, and the worker is at its empty check
C12_Witness ==
    \E i \in ThreadIds :
        /\ threads[i].pc = "check"
        /\ Len(threads[i].batch) = 2
        /\ threads[i].failed # <<>>
        /\ threads[i].failed[1] = threads[i].batch[1]

\* the files for which something failed while full_scan visited them
FailedFiles == {scan_errors[j].file_path : j \in 1..Len(scan_errors)}

(***************************************************************************)
(* C13: when full_scan has returned, every unknown qualifying file under   *)
(* the configured library paths has been requested, except the files for   *)
(* which the lookup or the scan request itself failed: a failure for one   *)
(* file does not keep the walk from the others.  The code does not keep    *)
(* this.                                                                   *)
(***************************************************************************)
C13_FailureDoesNotEndWalk ==
    mpc = "running" =>
        \A f \in ScannedFiles \ FailedFiles :
            IsUnknown(f) => RequestsOf(f) # {}

(***************************************************************************)
(* C14: no thread has a scan request in progress while it holds the lock   *)
(* of the dict: not a worker, not shutdown(), and the watcher, which       *)
(* issues no request at all, holds the lock only for its insert.           *)
(***************************************************************************)
C14_NoRequestUnderLock ==
    /\ \A i \in ThreadIds : threads[i].pc = "request" => lock # Worker(i)
    /\ mpc = "request" => lock # Main
    /\ lock = Watcher => wpc = "insert"
    /\ lock = Main => mpc = "take"
    /\ \A i \in ThreadIds : lock = Worker(i) => threads[i].pc \in {"scan", "check"}

\* the watcher holds the lock while a worker's scan request is in progress
C14_Witness ==
    /\ lock = Watcher
    /\ \E i \in ThreadIds : threads[i].pc = "request"

\* prefix is a prefix of s, character by character
IsPrefix(prefix, s) ==
    /\ Len(prefix) <= Len(s)
    /\ \A n \in 1..Len(prefix) : s[n] = prefix[n]

\* the libraries of the snapshot, by position, that have a root location
\* which is a prefix of the path
MatchingSections(path) ==
    {i \in 1..Len(library_sections) :
        \E j \in 1..Len(library_sections[i].locations) :
            IsPrefix(library_sections[i].locations[j], path)}

FirstOf(positions) == CHOOSE i \in positions : \A n \in positions : i <= n

(***************************************************************************)
(* C15: find_library_by_path returns the first library of the snapshot, in *)
(* enumeration order, that has a root location which is a prefix of the    *)
(* path, and none when no library has one; every request of full_scan is   *)
(* made under the key of that library, also when the root locations of     *)
(* several libraries are prefixes of the path.                             *)
(***************************************************************************)
C15_FirstMatchWins ==
    /\ \A f \in CandidateFiles :
           find_library_by_path(f) =
               IF MatchingSections(f) = {} THEN NoLibrary
               ELSE library_sections[FirstOf(MatchingSections(f))]
    /\ \A j \in 1..Len(scan_requests) :
           /\ MatchingSections(scan_requests[j].file_path) # {}
           /\ scan_requests[j].library_key =
                  library_sections[
                      FirstOf(MatchingSections(scan_requests[j].file_path))].key

\* full_scan has made a request for a file that two libraries match
C15_Witness ==
    /\ mpc = "running"
    /\ \E j \in 1..Len(scan_requests) :
           Cardinality(MatchingSections(scan_requests[j].file_path)) >= 2

\* the position in the snapshot of the library with this key
SectionOfKey(key) ==
    CHOOSE i \in 1..Len(library_sections) : library_sections[i].key = key

(***************************************************************************)
(* C16, as stated: when the root locations of two libraries are both       *)
(* prefixes of a path, the library with the longer root location is the    *)
(* one returned.  The code does not keep this: it returns the first match. *)
(***************************************************************************)
C16_LongestPrefixWins ==
    \A j \in 1..Len(scan_requests) :
        \A i \in MatchingSections(scan_requests[j].file_path) :
            LongestLocation(library_sections[i], scan_requests[j].file_path)
                <= LongestLocation(
                       library_sections[SectionOfKey(scan_requests[j].library_key)],
                       scan_requests[j].file_path)

(***************************************************************************)
(* C16, as amended: when the root locations of two libraries are both      *)
(* prefixes of a path, the library that comes first in the snapshot is the *)
(* one returned, whether its root location is the longer or the shorter.   *)
(***************************************************************************)
C16_EarlierOfTwoWins ==
    \A j \in 1..Len(scan_requests) :
        \A i1, i2 \in MatchingSections(scan_requests[j].file_path) :
            i1 < i2 => scan_requests[j].library_key # library_sections[i2].key

\* a request was made under a library whose matching root location is
\* shorter than that of a later library
C16_Witness ==
    \E j \in 1..Len(scan_requests) :
        \E i \in MatchingSections(scan_requests[j].file_path) :
            LongestLocation(library_sections[i], scan_requests[j].file_path)
                > LongestLocation(
                      library_sections[SectionOfKey(scan_requests[j].library_key)],
                      scan_requests[j].file_path)

\* full_scan is at a library path that does not exist
AtMissingPath ==
    /\ mpc = "full_scan"
    /\ path_idx <= Len(local_library_paths)
    /\ ~PathExists(local_library_paths[path_idx])

\* full_scan has gone through the whole list of library paths
FullScanCompleted == mpc = "running" /\ path_idx > Len(local_library_paths)

(***************************************************************************)
(* C17: at a library path that does not exist, full_scan does nothing but  *)
(* go on to the next path: no request, no error, and full_scan does not    *)
(* end there; and when full_scan has gone through the list, every unknown  *)
(* qualifying file of every library path that exists has been requested    *)
(* (save a file whose own lookup or request failed), wherever the missing  *)
(* paths are in the list.                                                  *)
(***************************************************************************)
C17_MissingPathSkipped ==
    /\ [][AtMissingPath =>
             /\ mpc' = "full_scan"
             /\ path_idx' = path_idx + 1
             /\ scan_requests' = scan_requests
             /\ scan_errors' = scan_errors]_vars
    /\ [](FullScanCompleted =>
             \A i \in 1..Len(local_library_paths) :
                 \A f \in Walk(local_library_paths[i]) \ FailedFiles :
                     IsUnknown(f) => RequestsOf(f) # {})

\* full_scan has gone through a list with a missing path before a path that
\* exists, and has made a request for a file of the latter
C17_Witness ==
    /\ FullScanCompleted
    /\ scan_errors = <<>>
    /\ \E i, k \in 1..Len(local_library_paths) :
           /\ i < k
           /\ ~PathExists(local_library_paths[i])
           /\ \E f \in Walk(local_library_paths[k]) : RequestsOf(f) # {}

\* main() is in the seeding loop or inside full_scan
StartingUp == mpc \in {"cache", "full_scan", "walk"}

\* full_scan has returned: it went through the list of library paths, or an
\* exception ended it
FullScanReturned == FullScanCompleted \/ (mpc = "running" /\ scan_errors # <<>>)

(***************************************************************************)
(* C18: main() has called cache_library_files for every library before    *)
(* full_scan begins; full_scan has returned before the observer is         *)
(* started; and as long as main() is in the seeding loop or in full_scan   *)
(* no add_scan_request call has been made or is under way and no worker    *)
(* thread exists.                                                          *)
(***************************************************************************)
C18_StartupOrder ==
    /\ ~StartingUp => mpc = "running"
    /\ mpc \in {"full_scan", "walk", "running"} =>
           cache_idx > Len(library_sections)
    /\ mpc = "running" => FullScanReturned
    /\ StartingUp =>
           /\ wpc = "idle"
           /\ calls = <<>>
           /\ pending_scans = <<>>
           /\ threads = <<>>
           /\ emits = <<>>

\* after a start-up in which full_scan made a request, the watcher has
\* recorded a key and a worker has emitted it
C18_Witness ==
    /\ mpc = "running"
    /\ scan_requests # <<>>
    /\ calls # <<>>
    /\ emits # <<>>

\* the calls for key k
CallsOf(k) == {j \in 1..Len(calls) : calls[j].key = k}

(***************************************************************************)
(* C19: an entry is requested at most once, by the worker or by            *)
(* shutdown(), never by both; the step that moves entries to a ready list  *)
(* or to shutdown()'s list is made by the holder of the lock and leaves    *)
(* none of them in the dict; and for every key the number of scan requests *)
(* issued is at most the number of add_scan_request calls made for it.     *)
(***************************************************************************)
C19_AtMostOncePerEntry ==
    /\ [](\A j \in 1..Len(emits) : Cardinality(EmitsOfScan(emits[j].scan)) = 1)
    /\ [](\A k \in CalledKeys : Cardinality(EmitsOf(k)) <= Cardinality(CallsOf(k)))
    /\ [](\A j \in 1..Len(emits) : KeyOf(emits[j].scan) \in CalledKeys)
    /\ [][\A i \in ThreadIds :
             (threads[i].pc = "scan" /\ threads'[i].pc = "emit") =>
                 /\ lock = Worker(i)
                 /\ \A n \in 1..Len(threads'[i].ready_scans) :
                        \A m \in 1..Len(pending_scans') :
                            pending_scans'[m] # threads'[i].ready_scans[n]]_vars
    /\ [][(mpc = "take" /\ mpc' = "emit") =>
             (lock = Main /\ pending_scans' = <<>>)]_vars

\* the worker and shutdown() have each issued a request for the same key,
\* for two entries of it
C19_Witness ==
    \E j1, j2 \in 1..Len(emits) :
        /\ KeyOf(emits[j1].scan) = KeyOf(emits[j2].scan)
        /\ emits[j1].by # Main
        /\ emits[j2].by = Main
        /\ mpc = "done"

\* the calls that recorded exactly this entry and were made before the flag
\* was set, or inserted it before shutdown() copied the dict
CallsBeforeStop(scan) ==
    {j \in 1..Len(calls) :
        calls[j].key = KeyOf(scan) /\ calls[j].at = scan.timestamp
        /\ ~calls[j].stopped}

CallsBeforeFlush(scan) ==
    {j \in 1..Len(calls) :
        calls[j].key = KeyOf(scan) /\ calls[j].at = scan.timestamp
        /\ ~calls[j].flushed}

(***************************************************************************)
(* C20, as stated: the entry of an add_scan_request call made after       *)
(* shutdown() has set the stop flag stays in the dict and is never         *)
(* requested.  The code does not keep this: shutdown() copies the dict     *)
(* after it has set the flag.                                              *)
(***************************************************************************)
C20_AfterStopNeverEmitted ==
    /\ \A j \in 1..Len(calls) :
           calls[j].stopped => HasKey(pending_scans, calls[j].key)
    /\ \A j \in 1..Len(emits) :
           Cardinality(EmitsOfScan(emits[j].scan))
               <= Cardinality(CallsBeforeStop(emits[j].scan))

(***************************************************************************)
(* C20, as amended: the stop flag, once set, stays set; a worker that is   *)
(* at its loop test while the flag is set ends without a request; with the *)
(* flag set add_scan_request still starts a worker exactly when none is    *)
(* alive; and an entry that add_scan_request inserts after shutdown() has  *)
(* copied and cleared the dict stays in the dict and is never requested.   *)
(***************************************************************************)
C20_AfterFlushNeverEmitted ==
    /\ [][stop_event => stop_event']_vars
    /\ [][\A i \in ThreadIds :
             (stop_event /\ threads[i].pc = "test" /\ threads'[i].pc # "test") =>
                 (threads'[i].pc = "exiting" /\ emits' = emits)]_vars
    /\ [][(stop_event /\ wpc = "check_alive" /\ wpc' # "check_alive") =>
             (wpc' = "start" <=> AliveThreads = {})]_vars
    /\ [](\A j \in 1..Len(calls) :
             calls[j].flushed =>
                 \E m \in 1..Len(pending_scans) :
                     /\ KeyOf(pending_scans[m]) = calls[j].key
                     /\ pending_scans[m].timestamp = LastCall(calls[j].key))
    /\ [](\A j \in 1..Len(emits) :
             Cardinality(EmitsOfScan(emits[j].scan))
                 <= Cardinality(CallsBeforeFlush(emits[j].scan)))

\* the only call was made after shutdown() had returned: it started the
\* only worker, which has ended without a request, and the entry is in the
\* dict
C20_Witness ==
    /\ AtRest
    /\ Len(calls) = 1
    /\ calls[1].flushed
    /\ Len(threads) = 1
    /\ emits = <<>>
    /\ HasKey(pending_scans, calls[1].key)

====
